---- MODULE Spec2Model ----
(***************************************************************************)
(* A model of the calendar assistant: the session loop (main.py), the      *)
(* completion orchestrator (ai_models/openai.py), the tool executor        *)
(* (main.py, handle_tool_call) and the calendar operations with their      *)
(* process-wide event cache (utils/calendar_actions.py).                   *)
(*                                                                         *)
(* Python exceptions are modelled as results with ok = FALSE and the       *)
(* exception text in err.  The OpenAI service and the Google Calendar      *)
(* backend are the environment: their replies are drawn from small sets.   *)
(***************************************************************************)
EXTENDS Integers, Sequences, FiniteSets, TLC

VARIABLES
    messages,          \* main(): the persistent conversation history
    working_messages,  \* structured_chat_completion(): messages.copy()
    pc,                \* position of the session loop / of the orchestrator
    tools,             \* the tools argument of the running orchestrator call
    tool_handler,      \* the tool_handler argument ("None" when absent)
    tool_calls,        \* message.tool_calls of the first-round reply
    next_call,         \* index of the next request of the for loop
    ret,               \* how the orchestrator call ended (value or exception)
    events,            \* calendar backend: live events by id
    issued,            \* number of event ids the backend has issued
    event_cache,       \* calendar_actions.event_cache
    turn,              \* number of orchestrator calls started in this session
    model_calls,       \* the model calls made by the running call: round, outcome
    handled,           \* the requests handed to tool_handler by the running call
    tool_failures,     \* how many tool calls of the batch failed or raised
    last_op            \* the last calendar operation called directly, if any

vars == <<messages, working_messages, pc, tools, tool_handler, tool_calls,
          next_call, ret, events, issued, event_cache, turn, model_calls,
          handled, tool_failures, last_op>>

-----------------------------------------------------------------------------
(* Bounds of the model *)

\* number of turns of a session (orchestrator calls) that are explored
MaxTurns == 2

\* largest number of tool requests in one first-round reply
MaxBatch == 2

-----------------------------------------------------------------------------
(* Small helpers on functions used as Python dicts *)

Put(f, k, v) == [x \in (DOMAIN f) \cup {k} |-> IF x = k THEN v ELSE f[x]]

Del(f, k) == [x \in (DOMAIN f) \ {k} |-> f[x]]

EmptyDict == [x \in {} |-> x]

\* str.lower() on the strings of the model
Lower(s) == IF s = "Sync" THEN "sync" ELSE s

\* the ids the backend hands out, in order
EventIds == <<"e1", "e2">>

-----------------------------------------------------------------------------
(* Timestamps.  A timestamp string is modelled by its wall-clock part and  *)
(* its offset suffix: "" (bare), "Z", "+00:00", "-03:00"; wall = "garbage" *)
(* is a string that is not ISO 8601.  wall "soon" lies inside the          *)
(* three-month search window of _find_event_id, wall "far" outside it.     *)

Stamp(wall, off) == [wall |-> wall, off |-> off]

IsIso(ts) == ts.wall # "garbage"

\* fromisoformat(date_str.replace('Z', '+00:00')) parses a bare timestamp
\* too (a naive datetime), so the except branch is entered only for a
\* string that is not ISO 8601, and there fromisoformat raises again.
ensure_rfc3339_format(ts) ==
    IF ~IsIso(ts) THEN [ok |-> FALSE, err |-> "ValueError", value |-> ts]
    ELSE [ok |-> TRUE, err |-> "",
          value |-> Stamp(ts.wall, IF ts.off = "Z" THEN "+00:00" ELSE ts.off)]

\* rank of a wall-clock time on the time line (for range queries)
Rank(ts) == IF ts.wall = "soon" THEN 1 ELSE 2

-----------------------------------------------------------------------------
(* The environment of one tool execution.                                  *)
(*   failAt: -1 no backend failure; 0 get_calendar_service() raises;       *)
(*           k >= 1 the k-th backend request of the operation raises a     *)
(*           non-404 HttpError                                             *)
(*   date:   datetime.now(), as [month, day]                               *)
(*   order:  the order in which the backend returns events of a search     *)

Env(failAt, date, order) == [failAt |-> failAt, date |-> date, order |-> order]

DaysInMonth(m) == IF m \in {4, 6, 9, 11} THEN 30 ELSE IF m = 2 THEN 28 ELSE 31

\* now.replace(month=now.month + 3) raises ValueError when the month is out
\* of range or the day does not exist in the target month
ReplaceMonthOk(date) ==
    /\ date.month + 3 <= 12
    /\ date.day <= DaysInMonth(date.month + 3)

\* the world a calendar operation runs in
World(ev, cache, n) == [events |-> ev, cache |-> cache, issued |-> n]

\* the event resource the backend returns for a live id
ApiEvent(ev, id) ==
    [id |-> id, summary |-> ev[id].summary, start |-> ev[id].start,
     attendees |-> ev[id].attendees]

Snapshot(event) ==
    [id |-> event.id, summary |-> event.summary, start |-> event.start,
     attendees |-> event.attendees]

\* _cache_event: the dict after caching, under the id and the lowered title
_cache_event(cache, event) ==
    Put(Put(cache, event.id, Snapshot(event)), Lower(event.summary),
        Snapshot(event))

\* outcome of an operation: ok = FALSE is a raised exception with text err
Raise(w, err, n) ==
    [ok |-> FALSE, err |-> err, w |-> w, data |-> <<>>, n |-> n, id |-> "None"]

Return(w, data, n, id) ==
    [ok |-> TRUE, err |-> "", w |-> w, data |-> data, n |-> n, id |-> id]

InWindow(event) == event.start.wall = "soon"

\* events().list(timeMin=now, timeMax=three_months, q=identifier): the ids
\* of the live events in the window, in the order the backend returns them
SearchItems(w, env) ==
    SelectSeq(env.order,
              LAMBDA id : id \in DOMAIN w.events /\ InWindow(ApiEvent(w.events, id)))

\* mutant: the first event the search returns is taken, whatever its title
TitleMatches_Any(w, items, ident) == items

\* if event['summary'].lower() == event_identifier.lower()
TitleMatches(w, items, ident) ==
    SelectSeq(items, LAMBDA id : Lower(w.events[id].summary) = Lower(ident))

\* _find_event_id; n counts the backend requests made
_find_event_id(w, ident, env) ==
    IF ident \in DOMAIN w.cache
    THEN Return(w, <<>>, 0, w.cache[ident].id)
    ELSE IF env.failAt = 1
    THEN Raise(w, "HttpError", 1)
    ELSE IF ident \in DOMAIN w.events
    THEN Return([w EXCEPT !.cache = _cache_event(w.cache, ApiEvent(w.events, ident))],
                <<>>, 1, ident)
    ELSE IF ~ReplaceMonthOk(env.date)
    THEN Return(w, <<>>, 1, "None")
    ELSE IF env.failAt = 2
    THEN Return(w, <<>>, 2, "None")
    ELSE LET found == TitleMatches(w, SearchItems(w, env), ident)
         IN  IF found = <<>>
             THEN Return(w, <<>>, 2, "None")
             ELSE Return([w EXCEPT !.cache =
                             _cache_event(w.cache, ApiEvent(w.events, found[1]))],
                         <<>>, 2, found[1])

\* create_event
create_event(w, args, env) ==
    LET start == ensure_rfc3339_format(args.start_time)
        end   == ensure_rfc3339_format(args.end_time)
        id    == EventIds[w.issued + 1]
        event == [id |-> id, summary |-> args.summary, start |-> start.value,
                  attendees |-> args.attendees]
    IN  IF ~start.ok \/ ~end.ok
        THEN Raise(w, "ValueError", 0)
        ELSE IF env.failAt = 1 \/ w.issued >= Len(EventIds)
        THEN Raise(w, "HttpError", 1)
        ELSE Return(World(Put(w.events, id,
                              [summary |-> event.summary, start |-> event.start,
                               attendees |-> event.attendees]),
                          _cache_event(w.cache, event), w.issued + 1),
                    <<Snapshot(event)>>, 1, id)

RECURSIVE CacheAll(_, _, _)
CacheAll(cache, ev, ids) ==
    IF ids = <<>> THEN cache
    ELSE CacheAll(_cache_event(cache, ApiEvent(ev, Head(ids))), ev, Tail(ids))

\* events ordered by start time (orderBy='startTime'), ties in backend order
ByStartTime(w, ids) ==
    SelectSeq(ids, LAMBDA id : Rank(w.events[id].start) = 1)
    \o SelectSeq(ids, LAMBDA id : Rank(w.events[id].start) = 2)

\* list_events
list_events(w, args, env) ==
    LET start == ensure_rfc3339_format(args.start_date)
        end   == ensure_rfc3339_format(args.end_date)
        live  == SelectSeq(env.order, LAMBDA id : id \in DOMAIN w.events)
        inRange == SelectSeq(ByStartTime(w, live),
                       LAMBDA id : /\ Rank(start.value) <= Rank(w.events[id].start)
                                   /\ Rank(w.events[id].start) <= Rank(end.value))
        items == SubSeq(inRange, 1,
                        IF Len(inRange) < args.max_results THEN Len(inRange)
                        ELSE args.max_results)
    IN  IF ~start.ok \/ ~end.ok
        THEN Raise(w, "ValueError", 0)
        ELSE IF env.failAt = 1
        THEN Raise(w, "HttpError", 1)
        ELSE Return([w EXCEPT !.cache = CacheAll(w.cache, w.events, items)],
                    [i \in 1..Len(items) |-> Snapshot(ApiEvent(w.events, items[i]))],
                    1, "None")

\* mutant: the email is appended whether or not it is listed
HasAttendee_Never(event, email) == FALSE

\* any(a.get('email') == attendee_email for a in attendees)
HasAttendee(event, email) ==
    \E i \in 1..Len(event.attendees) : event.attendees[i] = email

\* add_attendee
add_attendee(w, args, env) ==
    LET f == _find_event_id(w, args.event_id, env)
    IN  IF ~f.ok THEN Raise(f.w, f.err, f.n)
        ELSE IF f.id = "None"
        THEN Raise(f.w, "Could not find event", f.n)
        ELSE IF env.failAt = f.n + 1 \/ f.id \notin DOMAIN f.w.events
        THEN Raise(f.w, "HttpError", f.n + 1)
        ELSE LET event == ApiEvent(f.w.events, f.id)
                 updated == [event EXCEPT !.attendees = Append(@, args.attendee_email)]
             IN  IF HasAttendee(event, args.attendee_email)
                 THEN Return([f.w EXCEPT !.cache = _cache_event(@, event)],
                             <<Snapshot(event)>>, f.n + 1, f.id)
                 ELSE IF env.failAt = f.n + 2
                 THEN Raise(f.w, "HttpError", f.n + 2)
                 ELSE Return([f.w EXCEPT
                                 !.events[f.id].attendees = updated.attendees,
                                 !.cache = _cache_event(@, updated)],
                             <<Snapshot(updated)>>, f.n + 2, f.id)

\* mutant: only the id key is removed after the deletion
PurgeCache_IdOnly(cache, event) == Del(cache, event.id)

\* mutant: the cache is left as it is after the deletion
PurgeCache_Nothing(cache, event) == cache

\* del event_cache[actual_event_id]; del event_cache[event['summary'].lower()]
PurgeCache(cache, event) == Del(Del(cache, event.id), Lower(event.summary))

\* delete_event
delete_event(w, args, env) ==
    LET f == _find_event_id(w, args.event_id, env)
    IN  IF ~f.ok THEN Raise(f.w, f.err, f.n)
        ELSE IF f.id = "None"
        THEN Raise(f.w, "Could not find event", f.n)
        ELSE IF env.failAt = f.n + 1 \/ f.id \notin DOMAIN f.w.events
        THEN Raise(f.w, "HttpError", f.n + 1)
        ELSE LET event  == ApiEvent(f.w.events, f.id)
                 cached == _cache_event(f.w.cache, event)
             IN  IF env.failAt = f.n + 2
                 THEN Raise([f.w EXCEPT !.cache = cached], "HttpError", f.n + 2)
                 ELSE Return([f.w EXCEPT
                                 !.events = Del(@, f.id),
                                 !.cache = PurgeCache(cached, event)],
                             <<Snapshot(event)>>, f.n + 2, f.id)

-----------------------------------------------------------------------------
(* The Tool Registry and the Tool Executor (main.py) *)

\* the names of CALENDAR_TOOLS
CALENDAR_TOOLS == {"create_event", "list_events", "add_attendee", "delete_event"}

\* the parameters without a default of each calendar operation
RequiredParams(name) ==
    CASE name = "create_event" -> {"summary", "start_time", "end_time"}
      [] name = "list_events"  -> {"start_date", "end_date"}
      [] name = "add_attendee" -> {"event_id", "attendee_email"}
      [] name = "delete_event" -> {"event_id"}
      [] OTHER -> {}

\* all the parameters of each calendar operation
AllParams(name) ==
    CASE name = "create_event" ->
             {"summary", "start_time", "end_time", "description", "location",
              "attendees"}
      [] name = "list_events"  -> {"start_date", "end_date", "max_results"}
      [] OTHER -> RequiredParams(name)

\* whether operation(service, **args) binds; TypeError otherwise
Binds(name, args) ==
    /\ RequiredParams(name) \subseteq DOMAIN args
    /\ DOMAIN args \subseteq AllParams(name)

\* the defaults of the optional parameters
WithDefaults(name, args) ==
    CASE name = "create_event" ->
             [summary |-> args.summary, start_time |-> args.start_time,
              end_time |-> args.end_time,
              attendees |-> IF "attendees" \in DOMAIN args THEN args.attendees
                            ELSE <<>>]
      [] name = "list_events" ->
             [start_date |-> args.start_date, end_date |-> args.end_date,
              max_results |-> IF "max_results" \in DOMAIN args
                              THEN args.max_results ELSE 10]
      [] OTHER -> args

\* the calendar operation a tool name is dispatched to
Operation(name, w, args, env) ==
    CASE name = "create_event" -> create_event(w, args, env)
      [] name = "list_events"  -> list_events(w, args, env)
      [] name = "add_attendee" -> add_attendee(w, args, env)
      [] OTHER                 -> delete_event(w, args, env)

\* the keys of the operation's result that the success message reads
MessageKeys(name) ==
    CASE name = "create_event" -> {"summary", "link"}
      [] name = "add_attendee" -> {"summary", "attendees"}
      [] name = "delete_event" -> {"message"}
      [] OTHER -> {}

\* the keys of the value each operation returns
ResultKeys(name) ==
    CASE name = "delete_event" -> {"status", "message", "deleted_event"}
      [] OTHER -> {"id", "summary", "start", "end", "attendees"}

\* the outcome of handle_tool_call: a Tool Result, the world after it, and
\* what happened inside (op: the calendar operation invoked, op_err: the
\* text of the exception it raised, raised: the handler itself raised)
ToolResult(success, error, data, w, op, op_err) ==
    [raised |-> FALSE, success |-> success, error |-> error, data |-> data,
     w |-> w, op |-> op, op_err |-> op_err]

HandlerRaise(error, w) ==
    [raised |-> TRUE, success |-> FALSE, error |-> error, data |-> <<>>,
     w |-> w, op |-> "none", op_err |-> ""]

\* mutant: the ValueError for an unknown tool leaves the handler
UnknownTool_Raises(w) == HandlerRaise("Unknown tool", w)

\* raise ValueError(f"Unknown tool: ..."), caught by the except of the handler
UnknownTool(w) == ToolResult(FALSE, "Unknown tool", <<>>, w, "none", "")

\* the except branch of the handler for an exception of the operation
OperationFailed(name, r) == ToolResult(FALSE, r.err, <<>>, r.w, name, r.err)

\* handle_tool_call
handle_tool_call(w, tool_call, args, env) ==
    IF env.failAt = 0
    THEN ToolResult(FALSE, "service unavailable", <<>>, w, "none", "")
    ELSE IF tool_call.name \notin CALENDAR_TOOLS
    THEN UnknownTool(w)
    ELSE IF ~Binds(tool_call.name, args)
    THEN ToolResult(FALSE, "TypeError", <<>>, w, "none", "")
    ELSE LET r == Operation(tool_call.name, w,
                            WithDefaults(tool_call.name, args), env)
         IN  IF ~r.ok
             THEN OperationFailed(tool_call.name, r)
             ELSE IF ~(MessageKeys(tool_call.name) \subseteq
                           ResultKeys(tool_call.name))
             THEN ToolResult(FALSE, "KeyError", <<>>, r.w, tool_call.name, "")
             ELSE ToolResult(TRUE, "", r.data, r.w, tool_call.name, "")

-----------------------------------------------------------------------------
(* Messages *)

SystemMessage(now) == [role |-> "system", content |-> "prompt", now |-> now]

UserMessage(text) == [role |-> "user", content |-> text]

AssistantMessage(text) == [role |-> "assistant", content |-> text]

\* message.model_dump() of a first-round reply that carries tool calls
ToolRequestMessage(calls) ==
    [role |-> "assistant", content |-> "None", tool_calls |-> calls]

\* json.dumps(result) of a Tool Result
Dumps(result) ==
    [json |-> TRUE, success |-> result.success, error |-> result.error,
     data |-> result.data]

\* f"Error: {str(e)}"
ErrorText(err) == [json |-> FALSE, success |-> FALSE, error |-> err, data |-> <<>>]

ToolMessage(id, content) ==
    [role |-> "tool", tool_call_id |-> id, content |-> content]

\* json.loads(tool_call.function.arguments)
JsonLoads(arguments) ==
    IF arguments.json THEN [ok |-> TRUE, value |-> arguments.value]
    ELSE [ok |-> FALSE, value |-> arguments.value]

-----------------------------------------------------------------------------
(* What the environment can supply *)

Json(value) == [json |-> TRUE, value |-> value]

BadJson == [json |-> FALSE, value |-> EmptyDict]

\* a tool request without its correlation identifier
Request(name, arguments) == [name |-> name, arguments |-> arguments]

\* the tool requests the model may emit
Requests ==
    { Request("create_event",
              Json([summary |-> "Sync", start_time |-> Stamp("soon", "Z"),
                    end_time |-> Stamp("soon", "Z"), description |-> "",
                    location |-> "", attendees |-> <<>>])),
      Request("add_attendee", Json([event_id |-> "Sync", attendee_email |-> "a@x.com"])),
      Request("delete_event", Json([event_id |-> "sync"])),
      Request("delete_event", BadJson),
      Request("send_email", Json([to |-> "a@x.com"])) }

\* the correlation identifier the provider gives the i-th request of a reply
CallId(t, i) == t * 10 + i

\* the batches a first-round reply may carry in turn t
Batches(t) ==
    UNION { { [i \in 1..n |-> [id |-> CallId(t, i), name |-> b[i].name,
                               arguments |-> b[i].arguments]] :
              b \in [1..n -> Requests] } : n \in 0..MaxBatch }

Dates == { [month |-> 1, day |-> 15], [month |-> 1, day |-> 31],
           [month |-> 11, day |-> 15] }

Orders == { <<"e1", "e2">>, <<"e2", "e1">> }

Envs == { Env(k, d, o) : k \in -1..4, d \in Dates, o \in Orders }

\* what a tool_handler other than handle_tool_call may do with a request
OtherOutcomes ==
    { [raised |-> TRUE, success |-> FALSE], [raised |-> FALSE, success |-> FALSE],
      [raised |-> FALSE, success |-> TRUE] }

\* the structured payloads (parsed) of a second-round reply; <<>> is None,
\* the parsed field of a reply that carries tool calls or a refusal
Payloads ==
    { <<>> } \cup
    { <<[action |-> a, message |-> "reply"]>> : a \in {"create_event", "unknown"} }

\* the usage records of a completion; <<>> is a completion without usage,
\* and one record lacks a token count
Usages ==
    { <<>>,
      <<[completion_tokens |-> 2, total_tokens |-> 5]>>,
      <<[prompt_tokens |-> 3, completion_tokens |-> 2, total_tokens |-> 5]>>,
      <<[prompt_tokens |-> 3, completion_tokens |-> 2, total_tokens |-> 9]>> }

\* the second-round replies: the parsed payload, the usage record and the
\* number of tool requests the reply carries (the tool declarations are
\* still part of the request); a reply with tool requests has parsed None
Completions ==
    { c \in [parsed : Payloads, usage : Usages, requests : {0, 1}] :
        c.requests > 0 => c.parsed = <<>> }

\* the tools argument: None, or a list of declarations (by name)
ToolsArg(none, names) == [none |-> none, names |-> names]

ToolsArgs == { ToolsArg(TRUE, {}), ToolsArg(FALSE, {}), ToolsArg(FALSE, CALENDAR_TOOLS) }

\* Python truth value of the tools argument
Truthy(t) == ~t.none /\ t.names # {}

Handlers == {"None", "handle_tool_call", "other"}

\* the calendars a session may start with: the ids the backend has issued
\* before the session, and the events that are still live
InitialWorlds ==
    { World(EmptyDict, EmptyDict, 1),
      World([id \in {"e1"} |-> [summary |-> "Sync", start |-> Stamp("soon", "-03:00"),
                                attendees |-> <<>>]],
            EmptyDict, 2) }

UserInputs == {"hello"}

\* the conversations a direct caller of the orchestrator may pass
Conversations ==
    { <<SystemMessage(0), UserMessage("hello"), AssistantMessage("reply"),
        UserMessage("hello")>>,
      <<UserMessage("hello")>> }

-----------------------------------------------------------------------------
(* The Completion Orchestrator (ai_models/openai.py) *)

Pending == [kind |-> "pending", value |-> <<>>, error |-> ""]

\* a returned value: <<>> is None, <<e>> the serialized envelope e
Returned(v) == [kind |-> "value", value |-> v, error |-> ""]

Raised(e) == [kind |-> "raised", value |-> <<>>, error |-> e]

\* handle_openai_errors: every exception leaves as a plain Exception
handle_openai_errors(e) ==
    IF e = "OpenAIError" THEN "OpenAI API error" ELSE "Unexpected error"

\* completion["usage"][...] can be read for the three token counts
HasUsage(completion) ==
    /\ completion.usage # <<>>
    /\ {"prompt_tokens", "completion_tokens", "total_tokens"}
           \subseteq DOMAIN completion.usage[1]

\* mutant: missing usage data is defaulted to zero
_format_completion_response_json_Defaulting(completion) ==
    [ok |-> TRUE,
     value |-> <<[data |-> completion.parsed, cost |-> 0, total_tokens |-> 0]>>]

\* _format_completion_response_json; cost in millionths of a dollar
_format_completion_response_json(completion) ==
    IF ~HasUsage(completion)
    THEN [ok |-> FALSE, value |-> <<>>]
    ELSE [ok |-> TRUE,
          value |-> <<[data |-> completion.parsed,
                       cost |-> completion.usage[1].prompt_tokens
                                + 2 * completion.usage[1].completion_tokens,
                       total_tokens |-> completion.usage[1].total_tokens]>>]

\* mutant: working_messages = messages, the same list object
CallerMessages_Alias(own, work) == work

\* working_messages = messages.copy(): the caller's list after the
\* orchestrator has appended to its own
CallerMessages(own, work) == own

\* mutant: message.model_dump() is appended whether or not it has tool calls
WithToolRequest_AlwaysAppends(work, calls) == Append(work, ToolRequestMessage(calls))

\* the working conversation after the first-round reply
WithToolRequest(work, calls) ==
    IF calls # <<>> THEN Append(work, ToolRequestMessage(calls)) ELSE work

\* where the call goes after the first-round reply
AfterFirstReply(calls) == IF calls # <<>> THEN "tooling" ELSE "round2"

\* mutant: a failed model call is tried again
OnModelFailure_Retry(round) ==
    [pc |-> IF round = 1 THEN "round1" ELSE "round2", ret |-> Pending]

\* where the call goes when a model call raises, and what it raises
OnModelFailure(round) ==
    [pc |-> "raised", ret |-> Raised(handle_openai_errors("OpenAIError"))]

\* a tool_handler other than handle_tool_call
other_handler(w, outcome) ==
    [raised |-> outcome.raised, success |-> outcome.success,
     error |-> IF outcome.raised \/ ~outcome.success THEN "handler error" ELSE "",
     data |-> <<>>, w |-> w, op |-> "none", op_err |-> ""]

\* the body of the for loop for one tool call: parse the arguments, call
\* the handler, and the content of the tool message in either branch
RunToolCall(w, tc, handler, env, outcome) ==
    LET args == JsonLoads(tc.arguments)
        r == IF handler = "handle_tool_call"
             THEN handle_tool_call(w, tc, args.value, env)
             ELSE other_handler(w, outcome)
    IN  IF ~args.ok
        THEN [invoked |-> FALSE, excepted |-> TRUE, w |-> w,
              content |-> ErrorText("JSONDecodeError"),
              result |-> HandlerRaise("JSONDecodeError", w)]
        ELSE [invoked |-> TRUE, excepted |-> r.raised, w |-> r.w,
              content |-> IF r.raised THEN ErrorText(r.error) ELSE Dumps(r),
              result |-> r]

\* whether the tool call ended in an exception or a failed Tool Result
Failed(run) == run.excepted \/ ~run.result.success

\* mutant: the except branch of the for loop appends nothing
AppendToolResult_SkipOnError(work, tc, run) ==
    IF run.excepted THEN work ELSE Append(work, ToolMessage(tc.id, run.content))

\* the working conversation after one tool call
AppendToolResult(work, tc, run) == Append(work, ToolMessage(tc.id, run.content))

\* mutant: the loop ends at the first tool call that fails
AfterToolCall_BreakOnFailure(calls, i, run) ==
    IF i = Len(calls) \/ run.excepted \/ ~run.result.success THEN "round2"
    ELSE "tooling"

\* mutant: after the batch the model is asked again without the schema
AfterToolCall_Chained(calls, i, run) ==
    IF i = Len(calls) THEN "round1" ELSE "tooling"

\* mutant: no try/except around a tool call, its exception ends the call
AfterToolCall_AbortOnException(calls, i, run) ==
    IF run.excepted THEN "raised" ELSE IF i = Len(calls) THEN "round2" ELSE "tooling"

\* where the call goes after the i-th tool call
AfterToolCall(calls, i, run) == IF i = Len(calls) THEN "round2" ELSE "tooling"

\* what is remembered of a handler invocation that started in world w
HandledEntry(tc, run, w) ==
    [id |-> tc.id, name |-> tc.name, raised |-> run.result.raised,
     success |-> run.result.success, error |-> run.result.error,
     op |-> run.result.op, op_err |-> run.result.op_err,
     touched |-> run.w # w]

\* what is remembered of a model call
ModelCall(round, ok, requests, usage, total) ==
    [round |-> round, ok |-> ok, requests |-> requests, usage |-> usage,
     total |-> total]

\* structured_chat_completion up to the first model call
EnterCall(msgs, tls, h) ==
    /\ messages' = msgs
    /\ working_messages' = msgs
    /\ tools' = tls
    /\ tool_handler' = h
    /\ tool_calls' = <<>>
    /\ next_call' = 1
    /\ handled' = <<>>
    /\ tool_failures' = 0
    /\ model_calls' = <<>>
    /\ turn' = turn + 1
    /\ IF Truthy(tls)
       THEN IF h = "None"
            THEN pc' = "raised" /\ ret' = Raised(handle_openai_errors("ValueError"))
            ELSE pc' = "round1" /\ ret' = Pending
       ELSE pc' = "returned" /\ ret' = Returned(<<>>)
    /\ UNCHANGED <<events, issued, event_cache, last_op>>

\* client.chat.completions.create(**completion_kwargs) and what follows it
FirstModelCall ==
    /\ pc = "round1"
    /\ \E ok \in BOOLEAN :
         IF ~ok
         THEN /\ model_calls' = Append(model_calls, ModelCall(1, FALSE, 0, FALSE, 0))
              /\ pc' = OnModelFailure(1).pc
              /\ ret' = OnModelFailure(1).ret
              /\ UNCHANGED <<working_messages, tool_calls, messages>>
         ELSE \E calls \in Batches(turn) :
                   /\ model_calls' =
                          Append(model_calls, ModelCall(1, TRUE, Len(calls), TRUE, 0))
                   /\ tool_calls' = calls
                   /\ working_messages' = WithToolRequest(working_messages, calls)
                   /\ messages' = CallerMessages(messages, working_messages')
                   /\ pc' = AfterFirstReply(calls)
                   /\ ret' = ret
    /\ UNCHANGED <<tools, tool_handler, next_call, events, issued, event_cache,
                   turn, handled, tool_failures, last_op>>

\* the outcomes one iteration of the for loop can have for request tc
ToolRuns(w, tc, handler) ==
    { RunToolCall(w, tc, handler, env, outcome) :
        env \in Envs,
        outcome \in IF handler = "other" THEN OtherOutcomes
                    ELSE {[raised |-> FALSE, success |-> TRUE]} }

\* one iteration of: for tool_call in message.tool_calls
ExecuteToolCall ==
    /\ pc = "tooling"
    /\ \E run \in ToolRuns(World(events, event_cache, issued),
                           tool_calls[next_call], tool_handler) :
         /\ working_messages' =
                AppendToolResult(working_messages, tool_calls[next_call], run)
         /\ messages' = CallerMessages(messages, working_messages')
         /\ handled' = IF run.invoked
                       THEN Append(handled,
                                   HandledEntry(tool_calls[next_call], run,
                                                World(events, event_cache, issued)))
                       ELSE handled
         /\ tool_failures' = tool_failures + (IF Failed(run) THEN 1 ELSE 0)
         /\ events' = run.w.events
         /\ event_cache' = run.w.cache
         /\ issued' = run.w.issued
         /\ next_call' = next_call + 1
         /\ pc' = AfterToolCall(tool_calls, next_call, run)
    /\ UNCHANGED <<tools, tool_handler, tool_calls, ret, turn, model_calls,
                   last_op>>

\* client.beta.chat.completions.parse(**completion_kwargs) and the return
\* (or the exception): the locals of the call are gone after it
SecondModelCall ==
    /\ pc = "round2"
    /\ \E ok \in BOOLEAN :
         IF ~ok
         THEN /\ model_calls' = Append(model_calls, ModelCall(2, FALSE, 0, FALSE, 0))
              /\ pc' = OnModelFailure(2).pc
              /\ ret' = OnModelFailure(2).ret
         ELSE \E completion \in Completions :
                LET f == _format_completion_response_json(completion)
                IN  /\ model_calls' =
                           Append(model_calls,
                                  ModelCall(2, TRUE, completion.requests,
                                            HasUsage(completion),
                                            IF HasUsage(completion)
                                            THEN completion.usage[1].total_tokens
                                            ELSE 0))
                    /\ IF f.ok
                       THEN pc' = "returned" /\ ret' = Returned(f.value)
                       ELSE /\ pc' = "raised"
                            /\ ret' = Raised(handle_openai_errors("TypeError"))
    /\ working_messages' = <<>>
    /\ tool_calls' = <<>>
    /\ handled' = <<>>
    /\ UNCHANGED <<messages, tools, tool_handler, next_call, events, issued,
                   event_cache, turn, tool_failures, last_op>>

\* the caller has taken the result: nothing of the call is left
CallFinished ==
    /\ working_messages' = <<>>
    /\ tools' = ToolsArg(TRUE, {})
    /\ tool_handler' = "None"
    /\ tool_calls' = <<>>
    /\ next_call' = 1
    /\ handled' = <<>>
    /\ tool_failures' = 0
    /\ model_calls' = <<>>
    /\ ret' = Pending

-----------------------------------------------------------------------------
(* The session loop (main.py) *)

\* mutant: messages.insert(0, get_system_message())
RegenerateSystem_Insert(msgs, now) == <<SystemMessage(now)>> \o msgs

\* messages[0] = get_system_message()
RegenerateSystem(msgs, now) == [msgs EXCEPT ![1] = SystemMessage(now)]

\* json.loads(response)["data"]["message"], or the text of the except branch
AssistantText(r) ==
    IF r.kind = "value" /\ r.value # <<>> /\ r.value[1].data # <<>>
    THEN r.value[1].data[1].message
    ELSE "Sorry"

\* mutant: a turn that ends in an error adds no assistant message
WithAssistant_SkipOnError(msgs, r) ==
    IF r.kind = "raised" THEN msgs
    ELSE Append(msgs, AssistantMessage(AssistantText(r)))

\* the history after the turn's result is known
WithAssistant(msgs, r) == Append(msgs, AssistantMessage(AssistantText(r)))

\* one pass of the while loop up to the call of the orchestrator
UserTurn ==
    /\ pc = "input"
    /\ turn < MaxTurns
    /\ \E text \in UserInputs :
         EnterCall(RegenerateSystem(Append(messages, UserMessage(text)), turn + 1),
                   ToolsArg(FALSE, CALENDAR_TOOLS), "handle_tool_call")

\* mutant: the except branch of the loop also empties the event cache
MainReceive_ResetCache ==
    /\ pc \in {"returned", "raised"}
    /\ messages' = WithAssistant(messages, ret)
    /\ pc' = "input"
    /\ CallFinished
    /\ event_cache' = IF pc = "raised" THEN EmptyDict ELSE event_cache
    /\ UNCHANGED <<events, issued, turn, last_op>>

\* the rest of the pass: the reply or the error message joins the history
MainReceive ==
    /\ pc \in {"returned", "raised"}
    /\ messages' = WithAssistant(messages, ret)
    /\ pc' = "input"
    /\ CallFinished
    /\ UNCHANGED <<events, issued, event_cache, turn, last_op>>

\* 'quit' or 'exit'
Quit ==
    /\ pc = "input"
    /\ pc' = "quit"
    /\ UNCHANGED <<messages, working_messages, tools, tool_handler, tool_calls,
                   next_call, ret, events, issued, event_cache, turn, model_calls,
                   handled, tool_failures, last_op>>

\* no calendar operation has been called directly
NoOp == [name |-> "none"]

\* the process at start, with the calendar in one of the given worlds
StartIn(worlds) ==
    /\ messages = <<SystemMessage(0)>>
    /\ working_messages = <<>>
    /\ pc = "input"
    /\ tools = ToolsArg(TRUE, {})
    /\ tool_handler = "None"
    /\ tool_calls = <<>>
    /\ next_call = 1
    /\ ret = Pending
    /\ \E w \in worlds :
         events = w.events /\ issued = w.issued /\ event_cache = w.cache
    /\ turn = 0
    /\ model_calls = <<>>
    /\ handled = <<>>
    /\ tool_failures = 0
    /\ last_op = NoOp

Init == StartIn(InitialWorlds)

Next ==
    \/ UserTurn
    \/ FirstModelCall
    \/ ExecuteToolCall
    \/ SecondModelCall
    \/ MainReceive
    \/ Quit

Spec == Init /\ [][Next]_vars

-----------------------------------------------------------------------------
(* The orchestrator called directly, with any arguments *)

DirectCall ==
    /\ pc = "input"
    /\ turn < MaxTurns
    /\ \E msgs \in Conversations, tls \in ToolsArgs, h \in Handlers :
         EnterCall(msgs, tls, h)

CallerDone ==
    /\ pc \in {"returned", "raised"}
    /\ pc' = "input"
    /\ CallFinished
    /\ UNCHANGED <<messages, events, issued, event_cache, turn, last_op>>

NextOrch ==
    \/ DirectCall
    \/ FirstModelCall
    \/ ExecuteToolCall
    \/ SecondModelCall
    \/ CallerDone

SpecOrch == Init /\ [][NextOrch]_vars

-----------------------------------------------------------------------------
(* The calendar operations called directly, on any calendar *)

Emails == {"a@x.com"}

\* identifiers a caller may pass: ids, titles in either case, a stranger
Identifiers == {"e1", "e2", "Sync", "sync", "plan", "nope"}

\* a Z-suffixed and a bare timestamp, and one that is not ISO 8601
CreateArgs ==
    { [summary |-> "Sync", start_time |-> Stamp("soon", "Z"),
       end_time |-> Stamp("soon", "Z")],
      [summary |-> "plan", start_time |-> Stamp("far", ""),
       end_time |-> Stamp("far", ""), attendees |-> <<"a@x.com">>],
      [summary |-> "Sync", start_time |-> Stamp("garbage", ""),
       end_time |-> Stamp("soon", "Z")] }

ListArgs ==
    { [start_date |-> Stamp("soon", "Z"), end_date |-> Stamp("far", "Z")],
      [start_date |-> Stamp("soon", ""), end_date |-> Stamp("soon", ""),
       max_results |-> 1] }

AttendeeArgs ==
    { [event_id |-> i, attendee_email |-> m] : i \in Identifiers, m \in Emails }

DeleteArgs == { [event_id |-> i] : i \in Identifiers }

\* the backend answers every request, on any date and in any order, or it
\* fails the k-th request of an operation
CalEnvs ==
    { Env(-1, d, o) : d \in Dates, o \in Orders }
    \cup { Env(k, [month |-> 1, day |-> 15], <<"e1", "e2">>) : k \in 1..4 }

\* calendars at process start: the events were made elsewhere, the cache is
\* empty; in the last one two events share a title up to letter case
CalWorlds ==
    { World(EmptyDict, EmptyDict, 0),
      World([id \in {"e1"} |-> [summary |-> "Sync", start |-> Stamp("far", "+00:00"),
                                attendees |-> <<>>]],
            EmptyDict, 1),
      World([id \in {"e1", "e2"} |->
                [summary |-> IF id = "e1" THEN "Sync" ELSE "sync",
                 start |-> Stamp("soon", "+00:00"), attendees |-> <<>>]],
            EmptyDict, 2) }

\* a call operation(service, **args) and what is remembered of it
CalStep(name, args, env) ==
    LET w == World(events, event_cache, issued)
        r == Operation(name, w, WithDefaults(name, args), env)
    IN  /\ pc = "input"
        /\ events' = r.w.events
        /\ event_cache' = r.w.cache
        /\ issued' = r.w.issued
        /\ last_op' = [name |-> name, args |-> args, before |-> w, r |-> r]
        /\ UNCHANGED <<messages, working_messages, pc, tools, tool_handler,
                       tool_calls, next_call, ret, turn, model_calls, handled,
                       tool_failures>>

CallCreateEvent ==
    \E args \in CreateArgs, env \in CalEnvs : CalStep("create_event", args, env)

CallListEvents ==
    \E args \in ListArgs, env \in CalEnvs : CalStep("list_events", args, env)

CallAddAttendee ==
    \E args \in AttendeeArgs, env \in CalEnvs : CalStep("add_attendee", args, env)

CallDeleteEvent ==
    \E args \in DeleteArgs, env \in CalEnvs : CalStep("delete_event", args, env)

InitCal == StartIn(CalWorlds)

NextCal ==
    \/ CallCreateEvent
    \/ CallListEvents
    \/ CallAddAttendee
    \/ CallDeleteEvent

SpecCal == InitCal /\ [][NextCal]_vars

-----------------------------------------------------------------------------
(* Properties *)

IsToolMessage(m) == m.role = "tool"

IsToolRequestMessage(m) == "tool_calls" \in DOMAIN m

\* the ids of a sequence of records with an id field
Ids(seq) == [i \in 1..Len(seq) |-> seq[i].id]

\* C1: when the first-round reply carries N >= 1 tool requests, the
\* conversation handed to the second model call is the input conversation,
\* then the assistant tool-request message, then exactly N tool messages,
\* the i-th with the tool_call_id of the i-th request - whether the call
\* succeeded, returned a failed result, or raised.
C1_BatchHandedToSecondCall ==
    (pc = "round2" /\ tool_calls # <<>>) =>
        LET n == Len(messages)
            N == Len(tool_calls)
        IN  /\ Len(working_messages) = n + 1 + N
            /\ SubSeq(working_messages, 1, n) = messages
            /\ working_messages[n + 1] = ToolRequestMessage(tool_calls)
            /\ \A i \in 1..N :
                 /\ IsToolMessage(working_messages[n + 1 + i])
                 /\ working_messages[n + 1 + i].tool_call_id = tool_calls[i].id

\* a batch of two, one call raised and the other returned a failed result
C1_Witness ==
    /\ pc = "round2"
    /\ Len(tool_calls) = 2
    /\ Len(working_messages) = Len(messages) + 3
    /\ \E i, j \in 1..2 :
         /\ ~working_messages[Len(messages) + 1 + i].content.json
         /\ working_messages[Len(messages) + 1 + j].content.json
         /\ ~working_messages[Len(messages) + 1 + j].content.success

C3_UnknownToolReported ==
    tool_handler = "handle_tool_call" =>
        \A i \in 1..Len(handled) :
            /\ ~handled[i].raised
            /\ handled[i].name \notin CALENDAR_TOOLS =>
                   /\ ~handled[i].success
                   /\ handled[i].error = "Unknown tool"
                   /\ handled[i].op = "none"
                   /\ ~handled[i].touched
            /\ handled[i].op_err # "" =>
                   /\ ~handled[i].success
                   /\ handled[i].error = handled[i].op_err

\* C3 amended: handle_tool_call never raises; for a name outside the
\* declared tools it returns a failed result and invokes no calendar
\* operation, and the result reports the unknown tool unless
\* get_calendar_service() raised first, whose error it reports then; for
\* an exception of the calendar operation it returns a failed result
\* carrying that exception's text.
C3_ExecutorNeverRaises ==
    tool_handler = "handle_tool_call" =>
        \A i \in 1..Len(handled) :
            /\ ~handled[i].raised
            /\ handled[i].name \notin CALENDAR_TOOLS =>
                   /\ ~handled[i].success
                   /\ handled[i].error \in {"Unknown tool", "service unavailable"}
                   /\ handled[i].op = "none"
                   /\ ~handled[i].touched
            /\ handled[i].op_err # "" =>
                   /\ ~handled[i].success
                   /\ handled[i].error = handled[i].op_err

\* a batch with an unknown tool and an unresolvable event identifier
C3_Witness ==
    /\ tool_handler = "handle_tool_call"
    /\ Len(handled) = 2
    /\ \E i, j \in 1..2 :
         /\ handled[i].name = "send_email"
         /\ handled[i].error = "Unknown tool"
         /\ handled[j].op_err = "Could not find event"

\* C4: every call of the orchestrator that returns without raising returns
\* exactly one envelope, for every tools argument, also None or [].
C4_OneEnvelopePerReturn ==
    pc = "returned" => (ret.kind = "value" /\ Len(ret.value) = 1)

\* C5 as stated: with zero tool requests in the first-round reply, exactly
\* one assistant message is appended before the second round.
C5_OneAssistantAppended ==
    (pc = "round2" /\ tool_calls = <<>>) =>
        /\ Len(working_messages) = Len(messages) + 1
        /\ SubSeq(working_messages, 1, Len(messages)) = messages
        /\ working_messages[Len(working_messages)].role = "assistant"

\* C5 amended: with zero tool requests in the first-round reply nothing is
\* appended: the second model call receives the input conversation as it is.
C5_NothingAppended ==
    (pc = "round2" /\ tool_calls = <<>>) => working_messages = messages

\* the first-round reply came without tool requests
C5_Witness ==
    /\ pc = "round2"
    /\ tool_calls = <<>>
    /\ Len(model_calls) = 1
    /\ model_calls[1].ok
    /\ model_calls[1].requests = 0

\* the model calls and the tool executions of a turn are well ordered in
\* the step from the unprimed to the primed state
LastCall == model_calls[Len(model_calls)]

OneEnvelope(r) == r.kind = "value" /\ Len(r.value) = 1

\* C6: a turn makes at most two model calls, the unconstrained round and
\* then the forced-schema round; the handler runs and the calendar changes
\* only after the first and before the second model call, so tool requests
\* of the second reply are never executed.
C6_TwoRoundsNoChaining ==
    [][ /\ Len(model_calls') <= 2
        /\ \A i \in 1..Len(model_calls') : model_calls'[i].round = i
        /\ ( \/ (handled' # handled /\ handled' # <<>>)
             \/ events' # events
             \/ event_cache' # event_cache
             \/ issued' # issued )
           => /\ Len(model_calls) = 1
              /\ model_calls[1].ok
              /\ model_calls' = model_calls ]_vars

\* the second reply carried a tool request after a batch of two was run,
\* and the turn ended with the two model calls
C6_Witness ==
    /\ pc = "returned"
    /\ Len(model_calls) = 2
    /\ model_calls[1].requests = 2
    /\ model_calls[2].requests = 1
    /\ next_call = 3

\* C7: a failing model call is not retried and aborts the turn: it is the
\* last model call of the turn, the call raises (no envelope), a failing
\* first round leaves no tool executed and no second call, and no round is
\* attempted twice.
C7_FailedCallAbortsTurn ==
    /\ \A i \in 1..Len(model_calls) : model_calls[i].round = i
    /\ \A i \in 1..Len(model_calls) :
         ~model_calls[i].ok =>
            /\ i = Len(model_calls)
            /\ pc = "raised"
            /\ ret = Raised("OpenAI API error")
            /\ i = 1 => /\ handled = <<>>
                        /\ tool_calls = <<>>
                        /\ next_call = 1
                        /\ tool_failures = 0

\* the second round failed after a batch was processed
C7_Witness ==
    /\ pc = "raised"
    /\ Len(model_calls) = 2
    /\ ~model_calls[2].ok
    /\ next_call > 1

\* C8 as stated: when the second model call fails after a batch of N tool
\* requests, the conversation still holds the assistant tool-request
\* message and the N tool messages.
C8_ConversationKeepsBatch ==
    (pc = "raised" /\ Len(model_calls) = 2 /\ ~model_calls[2].ok /\ next_call > 1) =>
        \E k \in 1..Len(messages) :
            /\ IsToolRequestMessage(messages[k])
            /\ Len(messages) >= k + (next_call - 1)
            /\ \A i \in 1..(next_call - 1) : IsToolMessage(messages[k + i])

\* C8 amended: the orchestrator appends only to its own copy: no step of a
\* call changes the caller's conversation, which never holds a tool-request
\* or a tool message, and after a call that raised the session loop appends
\* one assistant message with the error text.
C8_CallerConversationUntouched ==
    [][ /\ pc \in {"round1", "tooling", "round2"} => messages' = messages
        /\ pc = "raised" => messages' = Append(messages, AssistantMessage("Sorry"))
        /\ \A k \in 1..Len(messages') :
             ~IsToolMessage(messages'[k]) /\ ~IsToolRequestMessage(messages'[k])
      ]_vars

\* the second model call failed after a batch of two was processed
C8_Witness ==
    /\ pc = "raised"
    /\ Len(model_calls) = 2
    /\ ~model_calls[2].ok
    /\ next_call = 3
    /\ Len(messages) = 2

\* C9: the history only grows: no step shortens it, every message at
\* index >= 1 stays as it is, and the message at index 0 changes only at
\* the start of a turn, to the system message generated then.
C9_AppendOnlyHistory ==
    [][ /\ Len(messages') >= Len(messages)
        /\ \A i \in 2..Len(messages) : messages'[i] = messages[i]
        /\ messages'[1].role = "system"
        /\ messages'[1] # messages[1] =>
              /\ pc = "input"
              /\ pc' # "input"
              /\ messages'[1] = SystemMessage(turn') ]_vars

\* two turns are over: the system message was regenerated twice and the
\* history holds both exchanges
C9_Witness ==
    /\ pc = "input"
    /\ Len(messages) = 5
    /\ messages[1] = SystemMessage(2)

\* C10 as stated: whenever both model calls of a turn succeed the turn
\* returns an envelope.
C10_EnvelopeWhenModelCallsSucceed ==
    (pc \in {"returned", "raised"} /\ Len(model_calls) = 2
        /\ model_calls[1].ok /\ model_calls[2].ok) =>
        (pc = "returned" /\ OneEnvelope(ret))

\* C10 amended: whenever both model calls of a turn succeed and the second
\* reply carries usage data, the turn returns an envelope, whatever the
\* outcomes of the tool calls; a turn is abandoned only when a model call
\* failed or the reply of the second one could not be formatted.
C10_ToolFailuresNeverAbort ==
    pc \in {"returned", "raised"} =>
        /\ (Len(model_calls) = 2 /\ model_calls[1].ok /\ model_calls[2].ok
               /\ model_calls[2].usage)
           => (pc = "returned" /\ OneEnvelope(ret))
        /\ pc = "raised" =>
              /\ model_calls # <<>>
              /\ ~LastCall.ok \/ (LastCall.round = 2 /\ ~LastCall.usage)

\* an envelope was returned after a batch of two in which every call failed
C10_Witness ==
    /\ pc = "returned"
    /\ OneEnvelope(ret)
    /\ next_call = 3
    /\ tool_failures = 2

-----------------------------------------------------------------------------
(* Properties of the calendar operations *)

\* the calendar as it is now
Now == World(events, event_cache, issued)

NoDuplicates(seq) ==
    \A i, j \in 1..Len(seq) : i # j => seq[i] # seq[j]

\* the last direct call was operation name and it returned
Did(name) == last_op.name = name /\ last_op.r.ok

\* C11: add_attendee is idempotent: a successful call appends the email
\* only when the event does not list it yet; calling it again with the same
\* arguments on the same event leaves the backend as it is, returns the
\* same attendee list and issues no update beyond the get; and no event
\* ever lists an email twice.
C11_AddAttendeeIdempotent ==
    /\ \A id \in DOMAIN events : NoDuplicates(events[id].attendees)
    /\ Did("add_attendee") =>
         LET id    == last_op.r.id
             email == last_op.args.attendee_email
             was   == last_op.before.events[id].attendees
         IN  /\ events[id].attendees =
                    IF \E i \in 1..Len(was) : was[i] = email THEN was
                    ELSE Append(was, email)
             /\ \A env \in CalEnvs :
                  LET again == add_attendee(Now, last_op.args, env)
                  IN  (again.ok /\ again.id = id) =>
                          /\ again.w.events = events
                          /\ again.data = last_op.r.data
                          /\ again.n =
                               _find_event_id(Now, last_op.args.event_id, env).n + 1

\* a call for an attendee the event already lists returned without a change
C11_Witness ==
    /\ Did("add_attendee")
    /\ \E i \in 1..Len(last_op.before.events[last_op.r.id].attendees) :
         last_op.before.events[last_op.r.id].attendees[i]
             = last_op.args.attendee_email
    /\ last_op.before.events = events
    /\ last_op.r.data[1].attendees = <<"a@x.com">>

\* C12: a successful delete_event removes the event from the backend and
\* purges its id key and its title key, and after any sequence of
\* operations no cache entry, under an id key or a title key, refers to an
\* event that is not on the backend any more.
C12_DeletePurgesCache ==
    /\ \A k \in DOMAIN event_cache : event_cache[k].id \in DOMAIN events
    /\ Did("delete_event") =>
         LET id == last_op.r.id
         IN  /\ id \in DOMAIN last_op.before.events
             /\ id \notin DOMAIN events
             /\ id \notin DOMAIN event_cache
             /\ Lower(last_op.before.events[id].summary) \notin DOMAIN event_cache

\* an event cached under both keys was deleted while another live event
\* bears the same title
C12_Witness ==
    /\ Did("delete_event")
    /\ LET id    == last_op.r.id
           title == Lower(last_op.before.events[id].summary)
       IN  /\ id \in DOMAIN last_op.before.cache
           /\ title \in DOMAIN last_op.before.cache
           /\ last_op.before.cache[title].id = id
           /\ \E other \in DOMAIN events : Lower(events[other].summary) = title

-----------------------------------------------------------------------------
(* Properties of batches that touch the calendar *)

\* the event identifier a parsed add_attendee or delete_event request names
Identifier(tc) == tc.arguments.value.event_id

\* request tc names an event by identifier
NamesEvent(tc) ==
    /\ tc.name \in {"add_attendee", "delete_event"}
    /\ JsonLoads(tc.arguments).ok

-----------------------------------------------------------------------------
(* Properties of identifier resolution *)

\* the live events an identifier matches: by id, or by title up to letter
\* case when the event starts inside the search window
Matches(ident) ==
    { id \in DOMAIN events :
        \/ id = ident
        \/ /\ Lower(events[id].summary) = Lower(ident)
           /\ InWindow(ApiEvent(events, id)) }

\* C14: on every date, the backend answering, _find_event_id resolves an
\* identifier that matches a live event to a matching event, and returns
\* not-found only when nothing matches.
C14_ResolutionFailsOnlyWithoutMatch ==
    \A ident \in Identifiers, env \in CalEnvs :
        env.failAt = -1 =>
            LET f == _find_event_id(Now, ident, env)
            IN  /\ f.ok
                /\ Matches(ident) # {} => f.id \in Matches(ident)
                /\ f.id = "None" => Matches(ident) = {}

\* the arguments of a call of operation name for an identifier
ArgsFor(name, ident, email) ==
    IF name = "add_attendee"
    THEN [event_id |-> ident, attendee_email |-> email]
    ELSE [event_id |-> ident]

-----------------------------------------------------------------------------
(* Properties of the cache and of the timestamps *)

\* the keys of the cache that are backend ids
IdKeys == { k \in DOMAIN event_cache : event_cache[k].id = k }

\* C16: for every id key k of event_cache, the entry under the lowered
\* title of event_cache[k] is that same snapshot, also when several events
\* share a title.
C16_TitleAndIdKeyAgree ==
    \A k \in IdKeys :
        /\ Lower(event_cache[k].summary) \in DOMAIN event_cache
        /\ event_cache[Lower(event_cache[k].summary)] = event_cache[k]

\* C17: an identifier that equals, up to letter case, the title of a cached
\* event resolves to the cached id without a backend request, whether or
\* not the event lies inside the search window.
C17_CacheLookupIgnoresCase ==
    \A ident \in Identifiers, env \in CalEnvs :
        (Lower(ident) \in DOMAIN event_cache \ IdKeys) =>
            LET f == _find_event_id(Now, ident, env)
            IN  /\ f.ok
                /\ f.n = 0
                /\ f.id = event_cache[Lower(ident)].id

\* C18: every timestamp create_event and list_events pass to the backend
\* carries an explicit offset: an offset-qualified or Z-suffixed input
\* keeps its instant, a bare input becomes the same wall-clock time at
\* +00:00.
C18_TimestampsCarryOffset ==
    /\ Did("create_event") =>
         LET given == last_op.args.start_time
             sent  == events[last_op.r.id].start
         IN  /\ sent.wall = given.wall
             /\ sent.off # ""
             /\ given.off = "" => sent.off = "+00:00"
    /\ Did("list_events") =>
         \A ts \in {last_op.args.start_date, last_op.args.end_date} :
             ensure_rfc3339_format(ts).value.off # ""

-----------------------------------------------------------------------------
(* Properties of the Response Formatter *)

\* C19: missing usage data is never masked: when the second reply has no
\* usage record or lacks a token count, the call raises and returns no
\* envelope; when the usage is there, the envelope's total_tokens is the
\* total the provider reported.
C19_MissingUsageNotMasked ==
    (pc \in {"returned", "raised"} /\ Len(model_calls) = 2 /\ LastCall.ok) =>
        IF LastCall.usage
        THEN /\ pc = "returned"
             /\ OneEnvelope(ret)
             /\ ret.value[1].total_tokens = LastCall.total
        ELSE /\ pc = "raised"
             /\ ret = Raised("Unexpected error")

\* the second model call succeeded, its reply came without usable usage
\* data and the call raised
C19_Witness ==
    /\ pc = "raised"
    /\ Len(model_calls) = 2
    /\ LastCall.ok
    /\ ~LastCall.usage
    /\ ret = Raised("Unexpected error")

-----------------------------------------------------------------------------
(* Properties of batches whose requests depend on each other *)

\* the request of the batch that the k-th handler invocation served
Served(k) == CHOOSE tc \in { tool_calls[i] : i \in 1..Len(tool_calls) } :
                 tc.id = handled[k].id

\* C20: the requests of a batch run in request order and each sees the
\* effects of the earlier ones: a request that names, by its title in any
\* letter case, an event that an earlier create_event request of the batch
\* created does not fail with could-not-find.
C20_LaterRequestSeesCreatedEvent ==
    (pc \in {"tooling", "round2"}) =>
        \A i, j \in 1..Len(handled) :
            ( /\ i < j
              /\ handled[i].name = "create_event"
              /\ handled[i].touched
              /\ NamesEvent(Served(j))
              /\ Lower(Identifier(Served(j))) =
                     Lower(Served(i).arguments.value.summary) )
            => handled[j].op_err # "Could not find event"

-----------------------------------------------------------------------------
(* Properties of the envelope and of the session history *)

\* C21: the second round answers with a structured payload and not with
\* tool requests: every envelope the orchestrator returns carries a payload
\* that is not null and has an action and a message.
C21_EnvelopeCarriesPayload ==
    (pc = "returned" /\ OneEnvelope(ret)) =>
        /\ LastCall.requests = 0
        /\ ret.value[1].data # <<>>
        /\ {"action", "message"} \subseteq DOMAIN ret.value[1].data[1]

\* a message with a role and a text, without tool calls or a tool_call_id
IsText(m, role) == m.role = role /\ DOMAIN m = {"role", "content"}

\* C22: every turn, whether it ends in an envelope or in an error, adds
\* exactly the user message and then one assistant text message: between
\* turns the history is the system message followed by one user/assistant
\* pair per turn, during a turn the last pair lacks its assistant message,
\* the history never holds a tool or a tool-request message, and the
\* conversation a turn starts from is that history.
C22_TwoMessagesPerTurn ==
    LET pairs == IF pc \in {"input", "quit"} THEN turn ELSE turn - 1
    IN  /\ messages[1].role = "system"
        /\ Len(messages) = 1 + 2 * pairs + (turn - pairs)
        /\ \A k \in 1..pairs :
             /\ IsText(messages[2 * k], "user")
             /\ IsText(messages[2 * k + 1], "assistant")
        /\ turn > pairs => IsText(messages[2 * turn], "user")
        /\ pc = "round1" => working_messages = messages

\* two turns are over, the first ended in an error, the second in an
\* envelope, and a tool call of one of them created an event
C22_Witness ==
    /\ pc = "input"
    /\ turn = 2
    /\ Len(messages) = 5
    /\ messages[3] = AssistantMessage("Sorry")
    /\ messages[5] = AssistantMessage("reply")
    /\ "e2" \in DOMAIN events

\* C23: a turn is not atomic: the calendar is changed only while the batch
\* is processed, so neither the second model call, nor its failure or the
\* failure of formatting its reply, nor the session loop that takes the
\* error undoes an effect of a tool call; and a turn that raised returned
\* no envelope.
C23_SideEffectsPersist ==
    [][ /\ pc # "tooling" => UNCHANGED <<events, event_cache, issued>>
        /\ pc' = "raised" => (ret'.kind = "raised" /\ ret'.value = <<>>)
      ]_vars

\* the only event of the calendar was deleted by a successful tool call,
\* then the second model call failed: the event stays deleted
C23_Witness ==
    /\ pc = "raised"
    /\ Len(model_calls) = 2
    /\ ~LastCall.ok
    /\ tool_failures = 0
    /\ next_call = 2
    /\ issued = 2
    /\ DOMAIN events = {}

====
